---- MODULE Spec2Model ----
(***************************************************************************)
(* A model of the test scaffolding of gonum:                               *)
(*   - internal/asm/f64/asm_test.go: guarded vector builders, the guard    *)
(*     validator and the increment-set enumerators;                        *)
(*   - lapack/testlapack/dlasr.go: DlasrTest, the explicit-matrix          *)
(*     reference check of Dlasr.                                           *)
(*                                                                         *)
(* float64 values are modelled by integers; NaN is the distinguished value *)
(* nan.  Go slices are sequences; offset i of a slice x is x[i+1].         *)
(***************************************************************************)
EXTENDS Integers, Sequences, FiniteSets, TLC

\* ------------------------------------------------------------------ bounds
MaxLen == 3        \* longest vec / data
MaxInc == 3        \* largest |inc|
MaxGd == 4         \* largest gdLen handed to guardIncVector
MaxVal == 3        \* data values are 1..MaxVal
MaxAxes == 2       \* longest increment list handed to newIncSet/newIncToSet
GMaxLen == 2       \* as MaxLen, MaxInc, MaxGd, for buffers a kernel writes to
GMaxInc == 3
GMaxGd == 1
MaxWrites == 2     \* writes of the kernel under test between build and check
DimSmall == 3      \* stands for the 5 of DlasrTest's (m, n, lda) table
DimLarge == 4      \* stands for its 10
LdaWide == 5       \* stands for its 20
MaxSeed == 3       \* seeds of the generator are 0..MaxSeed

\* ------------------------------------------------------------ float64, int
nan == -1

IsNaN(x) == x = nan

\* Go's == on float64: false whenever an operand is NaN.
FloatEq(x, y) == ~IsNaN(x) /\ ~IsNaN(y) /\ x = y

\* scalar.Same: NaN-aware equality.
Same(x, y) == FloatEq(x, y) \/ (IsNaN(x) /\ IsNaN(y))

Abs(x) == IF x < 0 THEN -x ELSE x

\* Go's integer / and %: truncated towards zero, the remainder has the sign
\* of the dividend.  Only used with b # 0.
GoDiv(x, b) ==
    LET q == Abs(x) \div Abs(b)
    IN  IF (x < 0) = (b < 0) THEN q ELSE -q

GoRem(x, b) == x - b * GoDiv(x, b)

At(x, i) == x[i + 1]

Store(x, i, val) == [x EXCEPT ![i + 1] = val]

SeqsUpTo(S, n) == UNION {[1..k -> S] : k \in 0..n}

DataVals == 1..MaxVal

\* ---------------------------------------------------------------- state
VARIABLES
    hpc,        \* which harness function has run: "start", "guardIncVector", ...
    vec, gdVal, inc, gdLen,   \* arguments of guardIncVector / checkValidIncGuard
    guarded,    \* the buffer guardIncVector returned
    data,       \* argument of newGuardedVector
    whole, v, frontGuard, backGuard,  \* newGuardedVector: buffer and its three views
    panicked,   \* the call ended in a run-time panic
    incs, is2, is3,           \* newIncSet / newIncToSet: argument and results
    writes,     \* number of writes the kernel under test has made
    strays,     \* offsets written outside the declared strided footprint
    errs,       \* the t.Errorf reports of checkValidIncGuard, in order
    dpc, trial, rnd, impl,    \* DlasrTest: position, loop variables, generator, implementation
    a, aCopy, s, c,           \* DlasrTest locals
    p, pk, ptmp, k,
    aMat, newA,
    failed,     \* trials that reported "A update mismatch"
    aRand, aOut, pks          \* history: values generated, what Dlasr left, the P_k built

hvars == <<hpc, vec, gdVal, inc, gdLen, guarded, data, whole, v, frontGuard,
           backGuard, panicked, incs, is2, is3, writes, strays, errs>>

dvars == <<dpc, trial, rnd, impl, a, aCopy, s, c, p, pk, ptmp, k, aMat, newA,
           failed, aRand, aOut, pks>>

vars == <<hvars, dvars>>

\* ------------------------------------------------------- guardIncVector
\* for i, v := range vec { guarded[gdLen+i*inc] = v }, from index i on.
\* An index outside the buffer is Go's run-time panic.
RECURSIVE GuardStoreLoop(_, _, _, _, _)
GuardStoreLoop(buf, src, base, step, i) ==
    IF i >= Len(src) THEN [panic |-> FALSE, buf |-> buf]
    ELSE IF base + i * step >= Len(buf) THEN [panic |-> TRUE, buf |-> <<>>]
    ELSE GuardStoreLoop(Store(buf, base + i * step, At(src, i)), src, base, step, i + 1)

guardIncVectorShort(src, val, inc0, gd) ==
    LET step == IF inc0 < 0 THEN -inc0 ELSE inc0
        inrLen == IF Len(src) = 0 THEN 0 ELSE (Len(src) - 1) * step + 1
        filled == [i \in 1..(inrLen + gd * 2) |-> val]
    IN  GuardStoreLoop(filled, src, gd, step, 0)

guardIncVector(src, val, inc0, gd) ==
    LET step == IF inc0 < 0 THEN -inc0 ELSE inc0
        inrLen == Len(src) * step
        filled == [i \in 1..(inrLen + gd * 2) |-> val]
    IN  GuardStoreLoop(filled, src, gd, step, 0)

\* ---------------------------------------------------- checkValidIncGuard
\* The switch of checkValidIncGuard for offset i of buf.
ClassifyNoOffset(buf, val, step, gd, i) ==
    LET srcLn == Len(buf) - 2 * gd
    IN  IF Same(At(buf, i), val) THEN "ok"
        ELSE IF GoRem(i, step) = 0 /\ GoDiv(i, step) < Len(buf) THEN "input"
        ELSE IF i < gd THEN "front"
        ELSE IF i > gd + srcLn THEN "back"
        ELSE "internal"

Classify(buf, val, step, gd, i) ==
    LET srcLn == Len(buf) - 2 * gd
    IN  IF Same(At(buf, i), val) THEN "ok"
        ELSE IF GoRem(i - gd, step) = 0 /\ GoDiv(i - gd, step) < Len(buf) THEN "input"
        ELSE IF i < gd THEN "front"
        ELSE IF i > gd + srcLn THEN "back"
        ELSE "internal"

\* The report of one violation: its kind and the position the message prints.
Report(buf, gd, kind, i) ==
    LET srcLn == Len(buf) - 2 * gd
    IN  [kind |-> kind,
         at |-> IF kind = "front" THEN i
                ELSE IF kind = "back" THEN i - gd - srcLn
                ELSE i - gd]

\* for i := range vec { switch ... }, from offset i on; t.Errorf records a
\* failure and returns, so the loop always runs to the end.
RECURSIVE CheckLoop(_, _, _, _, _, _)
CheckLoop(buf, val, step, gd, i, out) ==
    IF i >= Len(buf) THEN out
    ELSE LET kind == Classify(buf, val, step, gd, i)
         IN  CheckLoop(buf, val, step, gd, i + 1,
                       IF kind \in {"ok", "input"} THEN out
                       ELSE Append(out, Report(buf, gd, kind, i)))

checkValidIncGuard(buf, val, step, gd) == CheckLoop(buf, val, step, gd, 0, <<>>)

\* ------------------------------------------------------ newGuardedVector
newGuardedVectorLong(src, inc0) ==
    LET step == IF inc0 < 0 THEN -inc0 ELSE inc0
        guard == 2 * step
        size == Len(src) * step
        n == size + 2 * guard
    IN  IF n < 0 \/ guard > n - guard
        THEN [panic |-> TRUE, whole |-> <<>>, v |-> <<0, 0>>,
              frontGuard |-> <<0, 0>>, backGuard |-> <<0, 0>>]
        ELSE LET st == GuardStoreLoop([i \in 1..n |-> nan], src, guard, step, 0)
             IN  [panic |-> st.panic, whole |-> st.buf, v |-> <<guard, n - guard>>,
                  frontGuard |-> <<0, guard>>, backGuard |-> <<n - guard, n>>]

\* v, frontGuard and backGuard are views of whole: <<lo, hi>> is whole[lo:hi].
\* whole[guard : len(whole)-guard] panics when guard > len(whole)-guard, and
\* v[i*inc] = d panics at or beyond len(v).
newGuardedVector(src, inc0) ==
    LET step == IF inc0 < 0 THEN -inc0 ELSE inc0
        guard == 2 * step
        size == (Len(src) - 1) * step + 1
        n == size + 2 * guard
    IN  IF n < 0 \/ guard > n - guard
        THEN [panic |-> TRUE, whole |-> <<>>, v |-> <<0, 0>>,
              frontGuard |-> <<0, 0>>, backGuard |-> <<0, 0>>]
        ELSE LET st == IF \E i \in 0..(Len(src) - 1) : i * step >= size
                       THEN [panic |-> TRUE, buf |-> <<>>]
                       ELSE GuardStoreLoop([i \in 1..n |-> nan], src, guard, step, 0)
             IN  [panic |-> st.panic, whole |-> st.buf, v |-> <<guard, n - guard>>,
                  frontGuard |-> <<0, guard>>, backGuard |-> <<n - guard, n>>]

\* ------------------------------------------------- newIncSet, newIncToSet
\* for x := range inc { for y := range inc { is[x*n+y] = incSet{inc[x], inc[y]} } }
RECURSIVE IncSetLoop(_, _, _, _)
IncSetLoop(is, axes, x, y) ==
    LET n == Len(axes)
    IN  IF x >= n THEN is
        ELSE IF y >= n THEN IncSetLoop(is, axes, x + 1, 0)
        ELSE IncSetLoop(Store(is, x * n + y, [x |-> At(axes, x), y |-> At(axes, y)]),
                        axes, x, y + 1)

RECURSIVE IncSetLoopSwapped(_, _, _, _)
IncSetLoopSwapped(is, axes, x, y) ==
    LET n == Len(axes)
    IN  IF x >= n THEN is
        ELSE IF y >= n THEN IncSetLoopSwapped(is, axes, x + 1, 0)
        ELSE IncSetLoopSwapped(Store(is, y * n + x, [x |-> At(axes, x), y |-> At(axes, y)]),
                               axes, x, y + 1)

newIncSetSwapped(axes) ==
    LET n == Len(axes)
    IN  IncSetLoopSwapped([i \in 1..(n * n) |-> [x |-> 0, y |-> 0]], axes, 0, 0)

newIncSet(axes) ==
    LET n == Len(axes)
    IN  IncSetLoop([i \in 1..(n * n) |-> [x |-> 0, y |-> 0]], axes, 0, 0)

RECURSIVE IncToSetLoop(_, _, _, _, _)
IncToSetLoop(is, axes, i, x, y) ==
    LET n == Len(axes)
    IN  IF i >= n THEN is
        ELSE IF x >= n THEN IncToSetLoop(is, axes, i + 1, 0, 0)
        ELSE IF y >= n THEN IncToSetLoop(is, axes, i, x + 1, 0)
        ELSE IncToSetLoop(
                 Store(is, i * n * n + x * n + y,
                       [dst |-> At(axes, i), x |-> At(axes, x), y |-> At(axes, y)]),
                 axes, i, x, y + 1)

newIncToSet(axes) ==
    LET n == Len(axes)
    IN  IncToSetLoop([i \in 1..(n * n * n) |-> [dst |-> 0, x |-> 0, y |-> 0]],
                     axes, 0, 0, 0)

\* ======================================================== harness actions
NoView == <<0, 0>>

IncRange == (-MaxInc)..MaxInc

Sentinels == {nan, 0}

HInit ==
    /\ hpc = "start"
    /\ vec = <<>> /\ gdVal = 0 /\ inc = 0 /\ gdLen = 0 /\ guarded = <<>>
    /\ data = <<>> /\ whole = <<>>
    /\ v = NoView /\ frontGuard = NoView /\ backGuard = NoView
    /\ panicked = FALSE
    /\ incs = <<>> /\ is2 = <<>> /\ is3 = <<>>
    /\ writes = 0 /\ strays = {} /\ errs = <<>>

\* guarded := guardIncVector(vec, gdVal, inc, gdLen)
\* with the arguments drawn from the given sets.
CallGuardIncVector(srcs, strides, gds) ==
    /\ hpc = "start"
    /\ \E src \in srcs, val \in Sentinels, inc0 \in strides, gd \in gds :
          LET r == guardIncVector(src, val, inc0, gd)
          IN  /\ guarded' = r.buf
              /\ panicked' = r.panic
              /\ vec' = src /\ gdVal' = val /\ inc' = inc0 /\ gdLen' = gd
    /\ hpc' = "guardIncVector"
    /\ UNCHANGED <<data, whole, v, frontGuard, backGuard, incs, is2, is3,
                   writes, strays, errs>>
    /\ UNCHANGED dvars

\* v, frontGuard, backGuard := newGuardedVector(data, inc)
CallNewGuardedVector ==
    /\ hpc = "start"
    /\ \E src \in SeqsUpTo(DataVals, MaxLen), inc0 \in IncRange :
          LET r == newGuardedVector(src, inc0)
          IN  /\ whole' = r.whole
              /\ v' = r.v
              /\ frontGuard' = r.frontGuard
              /\ backGuard' = r.backGuard
              /\ panicked' = r.panic
              /\ data' = src /\ inc' = inc0
    /\ hpc' = "newGuardedVector"
    /\ UNCHANGED <<vec, gdVal, gdLen, guarded, incs, is2, is3, writes, strays, errs>>
    /\ UNCHANGED dvars

\* newIncSet(inc...) and newIncToSet(inc...), as in the align2, align3 initialisers
CallNewIncSet ==
    /\ hpc = "start"
    /\ \E axes \in SeqsUpTo(IncRange, MaxAxes) :
          /\ incs' = axes
          /\ is2' = newIncSet(axes)
    /\ hpc' = "newIncSet"
    /\ UNCHANGED <<vec, gdVal, inc, gdLen, guarded, data, whole, v, frontGuard,
                   backGuard, panicked, is3, writes, strays, errs>>
    /\ UNCHANGED dvars

CallNewIncToSet ==
    /\ hpc = "start"
    /\ \E axes \in SeqsUpTo(IncRange, MaxAxes) :
          /\ incs' = axes
          /\ is3' = newIncToSet(axes)
    /\ hpc' = "newIncToSet"
    /\ UNCHANGED <<vec, gdVal, inc, gdLen, guarded, data, whole, v, frontGuard,
                   backGuard, panicked, is2, writes, strays, errs>>
    /\ UNCHANGED dvars

\* ------------------------------------------- the kernel under test, checked
\* The physical offsets of the declared strided footprint of the buffer.
DataSlots == {gdLen + i * Abs(inc) : i \in 0..(Len(vec) - 1)}

WriteVals == {nan, 0, 1}

\* The kernel under test writes element i of its strided vector.
KernelWrite ==
    /\ hpc = "guardIncVector" /\ ~panicked
    /\ writes < MaxWrites
    /\ \E i \in 0..(Len(vec) - 1), val \in WriteVals :
          guarded' = Store(guarded, gdLen + i * Abs(inc), val)
    /\ writes' = writes + 1
    /\ UNCHANGED <<hpc, vec, gdVal, inc, gdLen, data, whole, v, frontGuard, backGuard,
                   panicked, incs, is2, is3, strays, errs>>
    /\ UNCHANGED dvars

\* A kernel that leaves its footprint overwrites an offset, a guard or an
\* inter-stride slot, with a value that is not the sentinel.
StrayWrite ==
    /\ hpc = "guardIncVector" /\ ~panicked
    /\ writes < MaxWrites
    /\ \E off \in (0..(Len(guarded) - 1)) \ DataSlots, val \in WriteVals :
          /\ ~Same(val, gdVal)
          /\ guarded' = Store(guarded, off, val)
          /\ strays' = strays \cup {off}
    /\ writes' = writes + 1
    /\ UNCHANGED <<hpc, vec, gdVal, inc, gdLen, data, whole, v, frontGuard, backGuard,
                   panicked, incs, is2, is3, errs>>
    /\ UNCHANGED dvars

\* checkValidIncGuard(t, guarded, gdVal, inc, gdLen)
CallCheckValidIncGuard ==
    /\ hpc = "guardIncVector" /\ ~panicked
    /\ errs' = checkValidIncGuard(guarded, gdVal, inc, gdLen)
    /\ hpc' = "checkValidIncGuard"
    /\ UNCHANGED <<vec, gdVal, inc, gdLen, guarded, data, whole, v, frontGuard,
                   backGuard, panicked, incs, is2, is3, writes, strays>>
    /\ UNCHANGED dvars

GuardVals == {0, 1}

\* checkValidIncGuard is handed the stride as a magnitude.
GIncRange == 1..GMaxInc

\* =============================================================== DlasrTest
Sides == <<"Left", "Right">>

Pivots == <<"Variable", "Top", "Bottom">>

Directs == <<"Forward", "Backward">>

\* The (m, n, lda) table, scaled down.
Tests ==
    << [m |-> DimSmall, n |-> DimSmall, lda |-> 0],
       [m |-> DimSmall, n |-> DimLarge, lda |-> 0],
       [m |-> DimLarge, n |-> DimSmall, lda |-> 0],
       [m |-> DimSmall, n |-> DimSmall, lda |-> LdaWide],
       [m |-> DimSmall, n |-> DimLarge, lda |-> LdaWide],
       [m |-> DimLarge, n |-> DimSmall, lda |-> LdaWide] >>

NumTrials == Len(Sides) * Len(Pivots) * Len(Directs) * Len(Tests)

\* The loop variables of the four nested range loops at iteration `trial`.
test == Tests[(trial % Len(Tests)) + 1]

direct == Directs[((trial \div Len(Tests)) % Len(Directs)) + 1]

pivot == Pivots[((trial \div (Len(Tests) * Len(Directs))) % Len(Pivots)) + 1]

side == Sides[(trial \div (Len(Tests) * Len(Directs) * Len(Pivots))) + 1]

m == test.m

n == test.n

lda == IF test.lda = 0 THEN n ELSE test.lda

pSize == IF side = "Right" THEN n ELSE m

\* rnd.Float64(): a deterministic generator; the value drawn is the new state,
\* read as the numerator of a fraction of 8 in [0, 1).
RndNext(x) == (5 * x + 3) % 8

RECURSIVE RndIter(_, _)
RndIter(x, count) == IF count = 0 THEN x ELSE RndNext(RndIter(x, count - 1))

\* math.Cos and math.Sin of theta = rnd.Float64()*2*pi, with theta taken down
\* to a whole quarter turn, where both are integers.
Cos4(x) == <<1, 0, -1, 0>>[(x \div 2) + 1]

Sin4(x) == <<0, 1, 0, -1>>[(x \div 2) + 1]

Zeros(len) == [i \in 1..len |-> 0]

\* Go's copy(dst, src): min(len(dst), len(src)) elements of src into dst.
Copy(dst, src) ==
    [i \in 1..Len(dst) |-> IF i <= Len(src) THEN src[i] ELSE dst[i]]

General(rows, cols, stride, dat) ==
    [Rows |-> rows, Cols |-> cols, Stride |-> stride, Data |-> dat]

Elem(A, i, j) == At(A.Data, i * A.Stride + j)

RECURSIVE Dot(_, _, _, _, _)
Dot(A, B, i, j, l) ==
    IF l >= A.Cols THEN 0 ELSE Elem(A, i, l) * Elem(B, l, j) + Dot(A, B, i, j, l + 1)

\* blas64.Gemm(NoTrans, NoTrans, 1, A, B, 0, C): C = A*B on the Rows x Cols
\* elements of C; the padding of C.Data beyond Cols is left alone.
Gemm(A, B, C) ==
    [C EXCEPT !.Data =
        [x \in 1..Len(C.Data) |->
            LET i == (x - 1) \div C.Stride
                j == (x - 1) % C.Stride
            IN  IF i < C.Rows /\ j < C.Cols THEN Dot(A, B, i, j, 0) ELSE C.Data[x]]]

\* floats.EqualApprox(s1, s2, tol): equal lengths and every pair of elements
\* within tol; over the integers the tolerance 1e-12 is 0.
EqualApprox(s1, s2) ==
    /\ Len(s1) = Len(s2)
    /\ \A i \in 1..Len(s1) : s1[i] = s2[i]

\* The implementations of the Dlasrer interface DlasrTest is handed: one that
\* leaves a as it received it, one that overwrites the m x n matrix with ones.
Impls == {"keep", "clobber"}

Dlasr(im, rows, cols, mat, stride) ==
    IF im = "keep" THEN mat
    ELSE [x \in 1..Len(mat) |->
             IF (x - 1) \div stride < rows /\ (x - 1) % stride < cols THEN 1 ELSE mat[x]]

Identity(size) ==
    General(size, size, size,
            [x \in 1..(size * size) |-> IF (x - 1) \div size = (x - 1) % size THEN 1 ELSE 0])

\* P_k: the identity with the four elements of the switch on pivot stored in
\* the order of the source.
ElementaryMatrix(piv, size, cs, sn, kk) ==
    LET I == Identity(size).Data
        ck == At(cs, kk)
        sk == At(sn, kk)
        dat ==
            IF piv = "Variable" THEN
                Store(Store(Store(Store(I,
                    kk * size + kk, ck),
                    kk * size + kk + 1, sk),
                    (kk + 1) * size + kk, -sk),
                    (kk + 1) * size + kk + 1, ck)
            ELSE IF piv = "Top" THEN
                Store(Store(Store(Store(I,
                    0, ck),
                    kk + 1, sk),
                    (kk + 1) * size, -sk),
                    (kk + 1) * size + kk + 1, ck)
            ELSE
                Store(Store(Store(Store(I,
                    (size - 1 - kk) * size + size - kk - 1, ck),
                    (size - 1 - kk) * size + size - 1, sk),
                    (size - 1) * size + size - 1 - kk, -sk),
                    (size - 1) * size + size - 1, ck)
    IN  General(size, size, size, dat)

\* Compute P <- P_k * P or P <- P * P_k.
AccumulateSwapped(dir, Pk, Ptmp, P) ==
    IF dir = "Forward" THEN Gemm(Ptmp, Pk, P) ELSE Gemm(Pk, Ptmp, P)

Accumulate(dir, Pk, Ptmp, P) ==
    IF dir = "Forward" THEN Gemm(Pk, Ptmp, P) ELSE Gemm(Ptmp, Pk, P)

NoMatrix == General(0, 0, 0, <<>>)

DIdle ==
    /\ dpc = "idle" /\ trial = 0 /\ rnd = 0 /\ impl = "none"
    /\ a = <<>> /\ aCopy = <<>> /\ s = <<>> /\ c = <<>>
    /\ p = NoMatrix /\ pk = NoMatrix /\ ptmp = NoMatrix /\ k = 0
    /\ aMat = NoMatrix /\ newA = NoMatrix
    /\ failed = {} /\ aRand = <<>> /\ aOut = <<>> /\ pks = <<>>

\* rnd := rand.New(rand.NewPCG(1, 1)); impl is the argument of DlasrTest.
DInit ==
    /\ dpc = "fill" /\ trial = 0
    /\ rnd \in 0..MaxSeed
    /\ impl \in Impls
    /\ a = <<>> /\ aCopy = <<>> /\ s = <<>> /\ c = <<>>
    /\ p = NoMatrix /\ pk = NoMatrix /\ ptmp = NoMatrix /\ k = 0
    /\ aMat = NoMatrix /\ newA = NoMatrix
    /\ failed = {} /\ aRand = <<>> /\ aOut = <<>> /\ pks = <<>>

\* Allocate A and fill it with random numbers.
FillA ==
    /\ dpc = "fill"
    /\ a' = [i \in 1..(m * lda) |-> RndIter(rnd, i)]
    /\ aRand' = a'
    /\ rnd' = RndIter(rnd, m * lda)
    /\ dpc' = "rotations"
    /\ UNCHANGED <<trial, impl, aCopy, s, c, p, pk, ptmp, k, aMat, newA, failed, aOut, pks>>
    /\ UNCHANGED hvars

\* Allocate s and c and fill them with the sine and cosine of random angles.
GenRotations ==
    /\ dpc = "rotations"
    /\ LET len == IF side = "Left" THEN m - 1 ELSE n - 1
       IN  /\ s' = [i \in 1..len |-> Sin4(RndIter(rnd, i))]
           /\ c' = [i \in 1..len |-> Cos4(RndIter(rnd, i))]
           /\ rnd' = RndIter(rnd, len)
    /\ dpc' = "snapshot"
    /\ UNCHANGED <<trial, impl, a, aCopy, p, pk, ptmp, k, aMat, newA, failed, aRand,
                   aOut, pks>>
    /\ UNCHANGED hvars

\* aCopy := make([]float64, len(a)); copy(a, aCopy)
Snapshot ==
    /\ dpc = "snapshot"
    /\ LET fresh == Zeros(Len(a))
       IN  /\ aCopy' = fresh
           /\ a' = Copy(a, fresh)
    /\ dpc' = "call"
    /\ UNCHANGED <<trial, rnd, impl, s, c, p, pk, ptmp, k, aMat, newA, failed, aRand,
                   aOut, pks>>
    /\ UNCHANGED hvars

\* impl.Dlasr(side, pivot, direct, m, n, c, s, a, lda)
CallDlasr ==
    /\ dpc = "call"
    /\ a' = Dlasr(impl, m, n, a, lda)
    /\ aOut' = a'
    /\ dpc' = "alloc"
    /\ UNCHANGED <<trial, rnd, impl, aCopy, s, c, p, pk, ptmp, k, aMat, newA, failed,
                   aRand, pks>>
    /\ UNCHANGED hvars

\* Allocate P, P_k and ptmp; initialize P and ptmp to the identity matrix.
AllocP ==
    /\ dpc = "alloc"
    /\ p' = Identity(pSize)
    /\ ptmp' = Identity(pSize)
    /\ pk' = General(pSize, pSize, pSize, Zeros(pSize * pSize))
    /\ k' = 0
    /\ pks' = <<>>
    /\ dpc' = "loop"
    /\ UNCHANGED <<trial, rnd, impl, a, aCopy, s, c, aMat, newA, failed, aRand, aOut>>
    /\ UNCHANGED hvars

\* One iteration of the loop over the plane rotations.
Rotation ==
    /\ dpc = "loop"
    /\ k < Len(s)
    /\ LET Pk == ElementaryMatrix(pivot, pSize, c, s, k)
           P == Accumulate(direct, Pk, ptmp, p)
       IN  /\ pk' = Pk
           /\ p' = P
           /\ ptmp' = [ptmp EXCEPT !.Data = Copy(ptmp.Data, P.Data)]
           /\ pks' = Append(pks, Pk)
    /\ k' = k + 1
    /\ UNCHANGED <<dpc, trial, rnd, impl, a, aCopy, s, c, aMat, newA, failed, aRand, aOut>>
    /\ UNCHANGED hvars

\* aMat and newA are allocated, copy(a, aCopy), and P * A or A * P is computed.
Reference ==
    /\ dpc = "loop"
    /\ k >= Len(s)
    /\ LET A == General(m, n, lda, Zeros(m * lda))
           C == General(m, n, lda, Zeros(m * lda))
       IN  /\ aMat' = A
           /\ newA' = IF side = "Left" THEN Gemm(p, A, C) ELSE Gemm(A, p, C)
    /\ a' = Copy(a, aCopy)
    /\ dpc' = "compare"
    /\ UNCHANGED <<trial, rnd, impl, aCopy, s, c, p, pk, ptmp, k, failed, aRand, aOut, pks>>
    /\ UNCHANGED hvars

\* Compare the result from Dlasr with the reference solution.
Compare ==
    /\ dpc = "compare"
    /\ failed' = IF ~EqualApprox(newA.Data, a) THEN failed \cup {trial} ELSE failed
    /\ dpc' = "compared"
    /\ UNCHANGED <<trial, rnd, impl, a, aCopy, s, c, p, pk, ptmp, k, aMat, newA, aRand,
                   aOut, pks>>
    /\ UNCHANGED hvars

\* The next iteration of the nested range loops, or the end of DlasrTest.
NextTrial ==
    /\ dpc = "compared"
    /\ IF trial + 1 < NumTrials
       THEN trial' = trial + 1 /\ dpc' = "fill"
       ELSE trial' = trial /\ dpc' = "done"
    /\ UNCHANGED <<rnd, impl, a, aCopy, s, c, p, pk, ptmp, k, aMat, newA, failed, aRand,
                   aOut, pks>>
    /\ UNCHANGED hvars

\* ========================================================= specifications
Init == HInit /\ DIdle

Next ==
    \/ CallGuardIncVector(SeqsUpTo(DataVals, MaxLen), IncRange, 0..MaxGd)
    \/ CallNewGuardedVector
    \/ CallNewIncSet
    \/ CallNewIncToSet

Spec == Init /\ [][Next]_vars

\* A guarded buffer is built, the kernel under test writes to it, and the
\* validator scans it.
NextGuard ==
    \/ CallGuardIncVector(SeqsUpTo(GuardVals, GMaxLen), GIncRange, 0..GMaxGd)
    \/ KernelWrite
    \/ StrayWrite
    \/ CallCheckValidIncGuard

SpecGuard == Init /\ [][NextGuard]_vars

NextDlasr ==
    \/ FillA
    \/ GenRotations
    \/ Snapshot
    \/ CallDlasr
    \/ AllocP
    \/ Rotation
    \/ Reference
    \/ Compare
    \/ NextTrial

InitDlasr == HInit /\ DInit

SpecDlasr == InitDlasr /\ [][NextDlasr]_vars

\* ================================================================ claims
ViewLen(view) == view[2] - view[1]

ViewOffsets(view) == view[1]..(view[2] - 1)

\* C3: for |inc| >= 1 and gdLen >= 0, guardIncVector returns a buffer of
\* length len(vec)*|inc| + 2*gdLen that holds vec[i] at offset gdLen + i*|inc|
\* and gdVal at every other offset; for guard length 4, stride 3 and data
\* [1,2,3] the buffer has length 17 and its only non-sentinel offsets are
\* 4, 7 and 10.
C3_GuardIncVectorLayout ==
    (hpc = "guardIncVector" /\ inc # 0) =>
        /\ ~panicked
        /\ Len(guarded) = Len(vec) * Abs(inc) + 2 * gdLen
        /\ \A i \in 0..(Len(vec) - 1) : At(guarded, gdLen + i * Abs(inc)) = At(vec, i)
        /\ \A off \in 0..(Len(guarded) - 1) :
              off \notin {gdLen + i * Abs(inc) : i \in 0..(Len(vec) - 1)}
                  => At(guarded, off) = gdVal
        /\ (vec = <<1, 2, 3>> /\ inc = 3 /\ gdLen = 4) =>
              /\ Len(guarded) = 17
              /\ {off \in 0..16 : ~Same(At(guarded, off), gdVal)} = {4, 7, 10}

C3_Witness ==
    /\ hpc = "guardIncVector"
    /\ vec = <<1, 2, 3>> /\ inc = 3 /\ gdLen = 4
    /\ Len(guarded) = 17
    /\ At(guarded, 10) = 3

\* C5 (as stated): for empty data and every stride of magnitude >= 1,
\* newGuardedVector completes without a run-time failure and returns guards
\* of length 2*|inc| that hold only NaN, and a vector view that is empty or
\* all NaN.
C5_EmptyDataAccepted ==
    (hpc = "newGuardedVector" /\ data = <<>> /\ inc # 0) =>
        /\ ~panicked
        /\ ViewLen(frontGuard) = 2 * Abs(inc)
        /\ ViewLen(backGuard) = 2 * Abs(inc)
        /\ \A off \in ViewOffsets(frontGuard) \cup ViewOffsets(backGuard)
                      \cup ViewOffsets(v) : IsNaN(At(whole, off))

\* C6: for non-empty data and a stride of either sign with |inc| >= 1,
\* frontGuard, v and backGuard are consecutive segments that exactly cover
\* the allocated buffer; both guards have length 2*|inc| and hold only NaN;
\* v has length (len(data)-1)*|inc|+1, v[i*|inc|] = data[i], and every other
\* element of v is NaN.
C6_GuardedVectorViews ==
    (hpc = "newGuardedVector" /\ data # <<>> /\ inc # 0) =>
        /\ ~panicked
        /\ frontGuard[1] = 0
        /\ frontGuard[2] = v[1]
        /\ v[2] = backGuard[1]
        /\ backGuard[2] = Len(whole)
        /\ ViewLen(frontGuard) = 2 * Abs(inc)
        /\ ViewLen(backGuard) = 2 * Abs(inc)
        /\ \A off \in ViewOffsets(frontGuard) \cup ViewOffsets(backGuard) :
              IsNaN(At(whole, off))
        /\ ViewLen(v) = (Len(data) - 1) * Abs(inc) + 1
        /\ \A i \in 0..(Len(data) - 1) : At(whole, v[1] + i * Abs(inc)) = At(data, i)
        /\ \A j \in 0..(ViewLen(v) - 1) :
              j \notin {i * Abs(inc) : i \in 0..(Len(data) - 1)}
                  => IsNaN(At(whole, v[1] + j))

C6_Witness ==
    /\ hpc = "newGuardedVector"
    /\ data = <<1, 2>> /\ inc = -2
    /\ ~panicked
    /\ Len(whole) = 11
    /\ v = <<4, 7>>

\* C7: newIncSet returns n*n pairs with entry x*n+y = (inc[x], inc[y]) and
\* newIncToSet returns n*n*n triples with entry i*n*n+x*n+y =
\* (inc[i], inc[x], inc[y]): the full Cartesian product in lexicographic order.
C7_IncSetsAreProducts ==
    LET num == Len(incs)
        ix == 0..(num - 1)
    IN  /\ hpc = "newIncSet" =>
              /\ Len(is2) = num * num
              /\ \A x \in ix, y \in ix :
                    At(is2, x * num + y) = [x |-> At(incs, x), y |-> At(incs, y)]
        /\ hpc = "newIncToSet" =>
              /\ Len(is3) = num * num * num
              /\ \A i \in ix, x \in ix, y \in ix :
                    At(is3, i * num * num + x * num + y) =
                        [dst |-> At(incs, i), x |-> At(incs, x), y |-> At(incs, y)]

C7_Witness ==
    /\ hpc = "newIncToSet"
    /\ incs = <<0, 1>>
    /\ Len(is3) = 8
    /\ At(is3, 5) = [dst |-> 1, x |-> 0, y |-> 1]

\* The offsets outside the declared footprint that no longer hold the sentinel.
Dirty == {off \in 0..(Len(guarded) - 1) : off \notin DataSlots /\ ~Same(At(guarded, off), gdVal)}

Region(off) ==
    IF off < gdLen THEN "front"
    ELSE IF off >= gdLen + Len(vec) * Abs(inc) THEN "back"
    ELSE "internal"

\* The physical offset a report is about.
ErrOffset(e) ==
    IF e.kind = "front" THEN e.at
    ELSE IF e.kind = "back" THEN e.at + gdLen + (Len(guarded) - 2 * gdLen)
    ELSE e.at + gdLen

\* C1 (as stated): for inc >= 1, checkValidIncGuard reports exactly one
\* violation per overwritten non-data offset, classified front, back or
\* internal by the region the offset lies in.
C1_OneViolationPerOverwrite ==
    (hpc = "checkValidIncGuard" /\ inc >= 1) =>
        /\ Len(errs) = Cardinality(Dirty)
        /\ {<<errs[j].kind, ErrOffset(errs[j])>> : j \in 1..Len(errs)}
               = {<<Region(off), off>> : off \in Dirty}

\* C4: for inc >= 1, a buffer built by guardIncVector and changed only at
\* its data slots gdLen+i*inc (or not at all) makes checkValidIncGuard report
\* nothing, whatever the data slots hold.
C4_FootprintOnlyNoViolation ==
    (hpc = "checkValidIncGuard" /\ inc >= 1 /\ strays = {}) => errs = <<>>

C4_Witness ==
    /\ hpc = "checkValidIncGuard"
    /\ inc >= 2 /\ gdLen >= 1 /\ strays = {}
    /\ writes >= 1
    /\ \E off \in DataSlots : ~Same(At(guarded, off), gdVal)
    /\ \E off \in DataSlots : Same(At(guarded, off), gdVal)
    /\ errs = <<>>

\* ------------------------------------------------------- DlasrTest claims
MatMul(A, B) == Gemm(A, B, General(A.Rows, B.Cols, B.Cols, Zeros(A.Rows * B.Cols)))

Reverse(ms) == [i \in 1..Len(ms) |-> ms[Len(ms) + 1 - i]]

\* (..(ms[1] * ms[2]) * ..) * ms[len]
RECURSIVE ChainLeft(_, _)
ChainLeft(ms, size) ==
    IF Len(ms) = 0 THEN Identity(size)
    ELSE IF Len(ms) = 1 THEN ms[1]
    ELSE MatMul(ChainLeft(SubSeq(ms, 1, Len(ms) - 1), size), ms[Len(ms)])

\* ms[1] * (ms[2] * (.. * ms[len]))
RECURSIVE ChainRight(_, _)
ChainRight(ms, size) ==
    IF Len(ms) = 0 THEN Identity(size)
    ELSE IF Len(ms) = 1 THEN ms[1]
    ELSE MatMul(ms[1], ChainRight(Tail(ms), size))

\* C10: after the elementary matrices P_0..P_{k-1}, the cumulative matrix P
\* is P_{k-1}*...*P_1*P_0 when direct is Forward and P_0*P_1*...*P_{k-1} when
\* direct is Backward, ptmp equals P after every step, and with no
\* elementary matrix P is the identity.
C10_CumulativeProduct ==
    (dpc \in {"loop", "compare", "compared"}) =>
        /\ Len(pks) = k
        /\ p.Data = IF direct = "Forward"
                    THEN ChainLeft(Reverse(pks), pSize).Data
                    ELSE ChainRight(pks, pSize).Data
        /\ ptmp.Data = p.Data
        /\ (k = 0 => p.Data = Identity(pSize).Data)

C10_Witness ==
    /\ dpc = "loop"
    /\ k = Len(s) /\ k >= 3
    /\ direct = "Backward"
    /\ MatMul(pks[1], pks[2]).Data # MatMul(pks[2], pks[1]).Data
    /\ p.Data = MatMul(MatMul(pks[1], pks[2]), pks[3]).Data
    /\ p.Data # Identity(pSize).Data

\* The explicit-matrix reference applied to the values generated for the trial.
RefProduct ==
    LET A == General(m, n, lda, aRand)
        C == General(m, n, lda, Zeros(m * lda))
    IN  IF side = "Left" THEN Gemm(p, A, C) ELSE Gemm(A, p, C)

\* Some element of the m x n matrix stored in dat differs from that of R.
DiffersFrom(dat, R) ==
    \E i \in 0..(m - 1), j \in 0..(n - 1) : At(dat, i * lda + j) # Elem(R, i, j)

\* C2 (as stated): "A update mismatch" is reported for a trial if and only if
\* the matrix impl.Dlasr left in a differs in some element from the reference
\* P*A (side Left) or A*P (side Right), A being the trial's random input.
C2_MismatchReportedIffWrong ==
    (dpc = "compared") => ((trial \in failed) <=> DiffersFrom(aOut, RefProduct))

\* C8 (as stated): at the call of impl.Dlasr a holds the random values of the
\* trial and aCopy an identical copy; the reference product is computed from
\* those original values; the matrix compared is the one impl.Dlasr wrote.
C8_SnapshotBeforeKernel ==
    /\ (dpc = "call") => (a = aRand /\ aCopy = aRand)
    /\ (dpc \in {"compare", "compared"}) => (aMat.Data = aRand /\ a = aOut)

\* The matrix that is the identity except for the rotation by (cs, sn) in
\* the plane of the indices plane[1] < plane[2].
IsPlaneRotation(M, plane, cs, sn) ==
    \A i \in 0..(M.Rows - 1), j \in 0..(M.Cols - 1) :
        Elem(M, i, j) =
            IF i = plane[1] /\ j = plane[1] THEN cs
            ELSE IF i = plane[1] /\ j = plane[2] THEN sn
            ELSE IF i = plane[2] /\ j = plane[1] THEN -sn
            ELSE IF i = plane[2] /\ j = plane[2] THEN cs
            ELSE IF i = j THEN 1
            ELSE 0

\* The planes the pivot policy allows rotation kk.
PolicyPlanes(kk) ==
    IF pivot = "Variable" THEN {<<kk, kk + 1>>}
    ELSE IF pivot = "Top" THEN {<<0, kk + 1>>}
    ELSE {<<i, pSize - 1>> : i \in 0..(pSize - 2)}

\* C9 (as stated): every P_k built is a plane rotation by (c[k], s[k]) in a
\* plane of two distinct indices that the pivot policy allows, and distinct
\* k of one trial use distinct planes.
C9_ElementaryIsPlaneRotation ==
    (dpc = "loop") =>
        \E f \in [1..Len(pks) -> UNION {PolicyPlanes(kk) : kk \in 0..(pSize - 2)}] :
            /\ \A j \in 1..Len(pks) :
                  /\ f[j] \in PolicyPlanes(j - 1)
                  /\ IsPlaneRotation(pks[j], f[j], c[j], s[j])
            /\ \A i, j \in 1..Len(pks) : i # j => f[i] # f[j]

====
